---- MODULE Spec2Model ----
(***************************************************************************)
(* Model of src/server.py: the Flask relay with the routes POST /chat and  *)
(* GET /.  Texts are sequences of one-character strings; the fixed texts   *)
(* of the program (prompt, knowledge base, error messages) are sequences   *)
(* holding one token that stands for the whole literal.                    *)
(***************************************************************************)
EXTENDS Naturals, Sequences, FiniteSets

\* ------------------------------------------------------------------ bounds
\* longest question / provider text / top-level string that is enumerated
MaxLen == 2
\* number of POST /chat requests in flight together
NumChat == 2

\* ------------------------------------------------------------------- texts
Char == {" ", "a"}
Whitespace == {" "}

Strs(n) == UNION {[1..k -> Char] : k \in 0..n}

\* str.strip(): drop the leading, then the trailing whitespace
RECURSIVE LStrip(_)
LStrip(s) == IF s # << >> /\ Head(s) \in Whitespace THEN LStrip(Tail(s)) ELSE s

RECURSIVE RStrip(_)
RStrip(s) ==
    IF s # << >> /\ s[Len(s)] \in Whitespace
    THEN RStrip(SubSeq(s, 1, Len(s) - 1))
    ELSE s

StripIdentity(s) == s

Strip(s) == RStrip(LStrip(s))

\* ------------------------------------------------------------- JSON values
JNull == [t |-> "null", n |-> 0, s |-> << >>]
JNum(n) == [t |-> "num", n |-> n, s |-> << >>]
JStr(s) == [t |-> "str", n |-> 0, s |-> s]
\* a list of n elements (its elements are never looked at)
JList(n) == [t |-> "list", n |-> n, s |-> << >>]
\* an object: has = it carries the key "question", q = the value under it
JObj(has, q) == [t |-> "obj", has |-> has, q |-> q]
\* a body get_json cannot parse (not JSON, or not sent as JSON)
Unparsable == [t |-> "unparsable", n |-> 0, s |-> << >>]

\* the values tried under the key "question"
Scalars(n) ==
    {JNull, JNum(0), JNum(1), JList(0), JList(1)} \cup {JStr(s) : s \in Strs(n)}

\* every request body tried for the first request
Bodies ==
    {Unparsable, JNull, JNum(0), JNum(1), JList(0), JList(1), JStr(<< >>), JStr(<<"a">>)}
        \cup {JObj(FALSE, JNull)}
        \cup {JObj(TRUE, v) : v \in Scalars(MaxLen)}

\* one body per way through the validation, tried for the other requests
CoreBodies ==
    {Unparsable, JList(1), JObj(TRUE, JNum(1)),
     JObj(TRUE, JStr(<<" ">>)), JObj(TRUE, JStr(<<"a", " ">>))}

\* Python truth value
Truthy(v) ==
    CASE v.t = "null" -> FALSE
      [] v.t = "num" -> v.n # 0
      [] v.t = "str" -> v.s # << >>
      [] v.t = "list" -> v.n # 0
      [] v.t = "obj" -> v.has
      [] OTHER -> FALSE

\* Python's type name of a value, as it shows in an AttributeError
TypeName(v) ==
    CASE v.t = "num" -> "int"
      [] v.t = "str" -> "str"
      [] v.t = "list" -> "list"
      [] v.t = "obj" -> "dict"
      [] OTHER -> "NoneType"

\* ------------------------------------------------------ results, exceptions
Exc(kind, msg) == [kind |-> kind, msg |-> msg]

NoExc == Exc("", "")

Ok(v) == [ok |-> TRUE, val |-> v, exc |-> NoExc]

Raise(e) == [ok |-> FALSE, val |-> << >>, exc |-> e]

NoAttribute(v, attr) ==
    Exc("AttributeError", "'" \o TypeName(v) \o "' object has no attribute '" \o attr \o "'")

\* --------------------------------------------------------------- constants
SYSTEM_PROMPT == <<"You are a helpful assistant who answers questions about Dimitris Dakos based strictly on the provided KNOWLEDGE. Do not invent facts or speculate. If the knowledge base does not contain the answer, reply that you do not have that information.">>

\* the knowledge text, lines 74-88, as one token
KNOWLEDGE == <<"\nDimitris Dakos is a seasoned supply-chain and logistics executive ...\n">>

\* ---------------------------------------------------------------- helpers
\* os.environ: is OPENAI_API_KEY set, and to what
EnvAbsent == [set |-> FALSE, value |-> << >>]

Envs == {EnvAbsent, [set |-> TRUE, value |-> <<" ">>], [set |-> TRUE, value |-> <<"a", " ">>]}

EnvGet(e, default) == IF e.set THEN e.value ELSE default

MissingKey ==
    Exc("RuntimeError", "OPENAI_API_KEY environment variable is missing. Set this variable in the Render service environment or your local shell.")

get_api_key_unchecked(e) == Ok(Strip(EnvGet(e, << >>)))

get_api_key(e) ==
    LET api_key == Strip(EnvGet(e, << >>))
    IN  IF api_key = << >> THEN Raise(MissingKey) ELSE Ok(api_key)

build_messages_knowledge_in_system(question) ==
    << [role |-> "system", content |-> SYSTEM_PROMPT \o KNOWLEDGE],
       [role |-> "user", content |-> question] >>

build_messages(question) ==
    << [role |-> "system", content |-> SYSTEM_PROMPT],
       [role |-> "user",
        content |-> <<"KNOWLEDGE:\n">> \o KNOWLEDGE \o <<"\n\nQuestion: ">> \o question] >>

\* request.get_json(silent=True): None for a body that does not parse
get_json_silent(b) == IF b.t = "unparsable" THEN JNull ELSE b

PyOr(a, b) == IF Truthy(a) THEN a ELSE b

\* lines 112-113: the question of a body, or the exception raised on the way
question_of(b) ==
    LET payload == PyOr(get_json_silent(b), JObj(FALSE, JNull))
    IN  IF payload.t # "obj"
        THEN Raise(NoAttribute(payload, "get"))
        ELSE LET got == IF payload.has THEN payload.q ELSE JNull
                 q == PyOr(got, JStr(<< >>))
             IN  IF q.t # "str"
                 THEN Raise(NoAttribute(q, "strip"))
                 ELSE Ok(Strip(q.s))

\* ---------------------------------------------------------------- responses
Json(status, key, text) == [status |-> status, kind |-> "json", key |-> key, text |-> text]

PlainText(status, text) == [status |-> status, kind |-> "text", key |-> "", text |-> text]

\* line 115
RejectResponse == Json(400, "error", <<"Please provide a question.">>)

error_text_message_only(e) == <<"Server error: ", e.msg>>

\* line 131: f"Server error: {type(exc).__name__}: {exc}"
error_text(e) == <<"Server error: ", e.kind, ": ", e.msg>>

\* lines 129-131
server_error(e) == Json(500, "error", error_text(e))

index_needs_key(e) ==
    IF get_api_key(e).ok THEN PlainText(200, <<"OK">>) ELSE PlainText(500, <<"OK">>)

\* line 137
index_response(e) == PlainText(200, <<"OK">>)

\* ------------------------------------------------------------ the provider
\* what client.chat.completions.create does: returns a completion with a
\* text, raises, or returns a completion the handler cannot read
Returned(text) == [t |-> "text", text |-> text, exc |-> NoExc]

Raised(e) == [t |-> "raise", text |-> << >>, exc |-> e]

NoChoices == [t |-> "nochoices", text |-> << >>, exc |-> NoExc]

NullContent == [t |-> "nullcontent", text |-> << >>, exc |-> NoExc]

NoOutcome == [t |-> "none", text |-> << >>, exc |-> NoExc]

ProviderFailures ==
    {Exc("APIConnectionError", "Connection error."),
     Exc("RateLimitError", "Error code: 429")}

Outcomes ==
    {Returned(s) : s \in Strs(MaxLen)} \cup {Raised(e) : e \in ProviderFailures}
        \cup {NoChoices, NullContent}

CoreOutcomes ==
    {Returned(<<" ", "a">>), Raised(Exc("APIConnectionError", "Connection error.")), NoChoices}

map_outcome_untrimmed(o) ==
    CASE o.t = "text" -> Json(200, "answer", o.text)
      [] o.t = "raise" -> server_error(o.exc)
      [] o.t = "nochoices" -> server_error(Exc("IndexError", "list index out of range"))
      [] OTHER -> server_error(NoAttribute(JNull, "strip"))

\* lines 127-131: the response for what the provider call did
map_outcome(o) ==
    CASE o.t = "text" -> Json(200, "answer", Strip(o.text))
      [] o.t = "raise" -> server_error(o.exc)
      [] o.t = "nochoices" -> server_error(Exc("IndexError", "list index out of range"))
      [] OTHER -> server_error(NoAttribute(JNull, "strip"))

retry_on_failure(o) == IF o.t = "text" THEN "Mapped" ELSE "PromptBuilt"

\* lines 128 and 131: both branches return, the handler is over
after_outcome(o) == "Mapped"

\* -------------------------------------------------------------------- state
ChatIds == 1..NumChat

\* the GET / request
HealthIds == {0}

Requests == ChatIds \cup HealthIds

VARIABLES
    env,        \* OPENAI_API_KEY in os.environ
    body,       \* body[r]: the body request r came with
    pc,         \* pc[r]: how far the handler of r is
    question,   \* question[r]: the local `question` of chat()
    client,     \* client[r]: the key the per-request OpenAI client holds
    messages,   \* messages[r]: the local `messages` of chat()
    sent,       \* sent[r]: the provider calls r has issued, in order
    provider,   \* provider[r]: "idle", "pending", "replied" or "hung"
    outcome,    \* outcome[r]: what the provider call of r did
    keyReads,   \* keyReads[r]: how often r has read OPENAI_API_KEY
    resp        \* resp[r]: the responses r has been given, in order

vars == <<env, body, pc, question, client, messages, sent, provider, outcome, keyReads, resp>>

BodiesFor(r) == IF r \in HealthIds THEN {Unparsable} ELSE IF r = 1 THEN Bodies ELSE CoreBodies

OutcomesFor(r) == IF r = 1 THEN Outcomes ELSE CoreOutcomes

Init ==
    /\ env \in Envs
    /\ body \in {b \in [Requests -> Bodies \cup CoreBodies] : \A r \in Requests : b[r] \in BodiesFor(r)}
    /\ pc = [r \in Requests |-> "Received"]
    /\ question = [r \in Requests |-> << >>]
    /\ client = [r \in Requests |-> << >>]
    /\ messages = [r \in Requests |-> << >>]
    /\ sent = [r \in Requests |-> << >>]
    /\ provider = [r \in Requests |-> "idle"]
    /\ outcome = [r \in Requests |-> NoOutcome]
    /\ keyReads = [r \in Requests |-> 0]
    /\ resp = [r \in Requests |-> << >>]

RespondShared(r, response) == resp' = [x \in Requests |-> Append(resp[x], response)]

\* return jsonify(...), lines 115, 128, 131 and 137: the response goes to r alone
Respond(r, response) == resp' = [resp EXCEPT ![r] = Append(@, response)]

\* lines 112-113, and 129-131 when they raise
Validate(r) ==
    /\ r \in ChatIds
    /\ pc[r] = "Received"
    /\ LET res == question_of(body[r])
       IN  IF res.ok
           THEN /\ question' = [question EXCEPT ![r] = res.val]
                /\ pc' = [pc EXCEPT ![r] = "Validated"]
                /\ UNCHANGED resp
           ELSE /\ Respond(r, server_error(res.exc))
                /\ pc' = [pc EXCEPT ![r] = "Mapped"]
                /\ UNCHANGED question
    /\ UNCHANGED <<env, body, client, messages, sent, provider, outcome, keyReads>>

\* lines 114-115
Reject(r) ==
    /\ r \in ChatIds
    /\ pc[r] = "Validated"
    /\ question[r] = << >>
    /\ Respond(r, RejectResponse)
    /\ pc' = [pc EXCEPT ![r] = "Rejected"]
    /\ UNCHANGED <<env, body, question, client, messages, sent, provider, outcome, keyReads>>

\* lines 118-119, and 129-131 when the key is missing
BuildPrompt(r) ==
    /\ r \in ChatIds
    /\ pc[r] = "Validated"
    /\ question[r] # << >>
    /\ keyReads' = [keyReads EXCEPT ![r] = @ + 1]
    /\ LET key == get_api_key(env)
       IN  IF key.ok
           THEN /\ client' = [client EXCEPT ![r] = key.val]
                /\ messages' = [messages EXCEPT ![r] = build_messages(question[r])]
                /\ pc' = [pc EXCEPT ![r] = "PromptBuilt"]
                /\ UNCHANGED resp
           ELSE /\ Respond(r, server_error(key.exc))
                /\ pc' = [pc EXCEPT ![r] = "Mapped"]
                /\ UNCHANGED <<client, messages>>
    /\ UNCHANGED <<env, body, question, sent, provider, outcome>>

\* lines 121-126: the request goes out
CallProvider(r) ==
    /\ r \in ChatIds
    /\ pc[r] = "PromptBuilt"
    /\ sent' = [sent EXCEPT ![r] = Append(@, [api_key |-> client[r], messages |-> messages[r]])]
    /\ provider' = [provider EXCEPT ![r] = "pending"]
    /\ pc' = [pc EXCEPT ![r] = "ProviderCalled"]
    /\ UNCHANGED <<env, body, question, client, messages, outcome, keyReads, resp>>

\* the provider stops answering; create() is given no timeout (lines 118-126)
ProviderHang(r) ==
    /\ r \in ChatIds
    /\ pc[r] = "ProviderCalled"
    /\ provider[r] = "pending"
    /\ provider' = [provider EXCEPT ![r] = "hung"]
    /\ UNCHANGED <<env, body, pc, question, client, messages, sent, outcome, keyReads, resp>>

\* lines 121-131: create() returns or raises, and the handler answers
Map(r, o) ==
    /\ r \in ChatIds
    /\ pc[r] = "ProviderCalled"
    /\ provider[r] = "pending"
    /\ provider' = [provider EXCEPT ![r] = "replied"]
    /\ outcome' = [outcome EXCEPT ![r] = o]
    /\ Respond(r, map_outcome(o))
    /\ pc' = [pc EXCEPT ![r] = after_outcome(o)]
    /\ UNCHANGED <<env, body, question, client, messages, sent, keyReads>>

\* lines 134-137
index(h) ==
    /\ h \in HealthIds
    /\ pc[h] = "Received"
    /\ Respond(h, index_response(env))
    /\ pc' = [pc EXCEPT ![h] = "Done"]
    /\ UNCHANGED <<env, body, question, client, messages, sent, provider, outcome, keyReads>>

Next ==
    \/ \E r \in ChatIds : Validate(r)
    \/ \E r \in ChatIds : Reject(r)
    \/ \E r \in ChatIds : BuildPrompt(r)
    \/ \E r \in ChatIds : CallProvider(r)
    \/ \E r \in ChatIds : ProviderHang(r)
    \/ \E r \in ChatIds : \E o \in OutcomesFor(r) : Map(r, o)
    \/ \E h \in HealthIds : index(h)

Spec == Init /\ [][Next]_vars

\* every handler runs on; the provider is not bound to answer
Fairness ==
    /\ \A r \in ChatIds : WF_vars(Validate(r))
    /\ \A r \in ChatIds : WF_vars(Reject(r))
    /\ \A r \in ChatIds : WF_vars(BuildPrompt(r))
    /\ \A r \in ChatIds : WF_vars(CallProvider(r))
    /\ \A r \in ChatIds : WF_vars(\E o \in OutcomesFor(r) : Map(r, o))
    /\ \A h \in HealthIds : WF_vars(index(h))

LiveSpec == Spec /\ Fairness

TypeOK ==
    /\ env \in Envs
    /\ \A r \in Requests : pc[r] \in {"Received", "Validated", "PromptBuilt", "ProviderCalled", "Mapped", "Rejected", "Done"}
    /\ \A r \in Requests : provider[r] \in {"idle", "pending", "replied", "hung"}

\* ------------------------------------------------------ words of the claims
IsBlank(s) == \A i \in 1..Len(s) : s[i] \in Whitespace

\* t is s without its leading and trailing whitespace
IsTrimOf(t, s) ==
    \E i \in 1..(Len(s) + 1) : \E j \in 0..Len(s) :
        /\ t = SubSeq(s, i, j)
        /\ \A k \in 1..(i - 1) : s[k] \in Whitespace
        /\ \A k \in (j + 1)..Len(s) : s[k] \in Whitespace
        /\ t # << >> => (t[1] \notin Whitespace /\ t[Len(t)] \notin Whitespace)

Elems(s) == {s[i] : i \in 1..Len(s)}

HasStringQuestion(b) == b.t = "obj" /\ b.has /\ b.q.t = "str"

BlankQuestion(b) == HasStringQuestion(b) /\ IsBlank(b.q.s)

WellFormed(b) == HasStringQuestion(b) /\ ~IsBlank(b.q.s)

KeyPresent == env.set /\ ~IsBlank(env.value)

Finished(r) == pc[r] \in {"Mapped", "Rejected", "Done"}

PleaseProvide ==
    [status |-> 400, kind |-> "json", key |-> "error", text |-> <<"Please provide a question.">>]

\* C1: a request whose question is empty or whitespace-only never reaches the
\* provider and, whatever the credential, is answered 400 with
\* {"error": "Please provide a question."}.
C1_BlankQuestionRejected ==
    \A r \in ChatIds :
        BlankQuestion(body[r]) =>
            /\ sent[r] = << >>
            /\ provider[r] = "idle"
            /\ Finished(r) => resp[r] = <<PleaseProvide>>

C1_Witness ==
    \E r \in ChatIds :
        /\ BlankQuestion(body[r])
        /\ body[r].q.s # << >>
        /\ KeyPresent
        /\ pc[r] = "Rejected"

\* C2: a well-formed question, a present credential and a provider that returns
\* the text T give status 200 with the body {"answer": trim(T)}, also when
\* trim(T) is empty.
C2_AnswerIsTrimmedText ==
    \A r \in ChatIds :
        (WellFormed(body[r]) /\ provider[r] = "replied" /\ outcome[r].t = "text") =>
            /\ KeyPresent
            /\ Len(resp[r]) = 1
            /\ resp[r][1].status = 200
            /\ resp[r][1].kind = "json"
            /\ resp[r][1].key = "answer"
            /\ IsTrimOf(resp[r][1].text, outcome[r].text)

C2_Witness ==
    \E r \in ChatIds :
        /\ provider[r] = "replied"
        /\ outcome[r] = Returned(<<" ", " ">>)
        /\ resp[r][1].text = << >>
        /\ resp[r][1].status = 200

\* C3 as stated: with the credential absent every request, whatever its body,
\* is answered 500 and the provider is never invoked.
C3_Original ==
    ~env.set =>
        \A r \in ChatIds :
            /\ sent[r] = << >>
            /\ Finished(r) => resp[r][1].status = 500

\* C3 amended: with the credential absent the provider is never invoked; a
\* request whose question is a non-blank string is answered 500 with the
\* missing-key error, one whose question is blank is answered 400.
C3_AbsentKey ==
    ~env.set =>
        \A r \in ChatIds :
            /\ sent[r] = << >>
            /\ provider[r] = "idle"
            /\ (Finished(r) /\ WellFormed(body[r])) =>
                /\ Len(resp[r]) = 1
                /\ resp[r][1].status = 500
                /\ resp[r][1].key = "error"
                /\ "RuntimeError" \in Elems(resp[r][1].text)
            /\ (Finished(r) /\ BlankQuestion(body[r])) => resp[r][1].status = 400

C3_Witness ==
    /\ ~env.set
    /\ \E r \in ChatIds : WellFormed(body[r]) /\ pc[r] = "Mapped" /\ resp[r][1].status = 500
    /\ \E r \in ChatIds : BlankQuestion(body[r]) /\ pc[r] = "Rejected"

\* the exception the handler sees for a provider call that did not give a text
FailureKind(o) ==
    CASE o.t = "raise" -> o.exc.kind
      [] o.t = "nochoices" -> "IndexError"
      [] OTHER -> "AttributeError"

\* C4: a provider call that fails (it raises, or its completion has no choices
\* or a null content) is answered 500 with an error text that holds the
\* exception's type name and its message; it is never answered 200 and never
\* left without a response.
C4_ProviderFailureIs500 ==
    \A r \in ChatIds :
        (provider[r] = "replied" /\ outcome[r].t # "text") =>
            /\ Len(resp[r]) = 1
            /\ resp[r][1].status = 500
            /\ resp[r][1].kind = "json"
            /\ resp[r][1].key = "error"
            /\ FailureKind(outcome[r]) \in Elems(resp[r][1].text)
            /\ outcome[r].t = "raise" => outcome[r].exc.msg \in Elems(resp[r][1].text)
            /\ Len(resp[r][1].text) = 4

C4_Witness ==
    /\ \E r \in ChatIds : provider[r] = "replied" /\ outcome[r] = NullContent /\ resp[r][1].status = 500
    /\ \E r \in ChatIds : provider[r] = "replied" /\ outcome[r].t = "raise" /\ resp[r][1].status = 500

\* C5: a request whose body does not parse, is no object, or carries no string
\* under "question" is answered 400 with "Please provide a question." and
\* makes no provider call.
C5_NoQuestionIs400 ==
    \A r \in ChatIds :
        ~HasStringQuestion(body[r]) =>
            /\ sent[r] = << >>
            /\ Finished(r) => resp[r] = <<PleaseProvide>>

ExpectedCalls(r) == IF r \in ChatIds /\ WellFormed(body[r]) /\ KeyPresent THEN 1 ELSE 0

\* C6: a request issues exactly one provider call when its validation passes
\* and the credential is present and none otherwise, however the requests
\* interleave; a failed call is not repeated.
C6_OneCallPerRequest ==
    \A r \in Requests :
        /\ Len(sent[r]) <= ExpectedCalls(r)
        /\ (Finished(r) \/ pc[r] = "ProviderCalled") => Len(sent[r]) = ExpectedCalls(r)

C6_Witness ==
    \E r1 \in ChatIds : \E r2 \in ChatIds :
        /\ pc[r1] = "Mapped" /\ outcome[r1].t = "raise" /\ Len(sent[r1]) = 1
        /\ pc[r2] = "Mapped" /\ outcome[r2].t = "text" /\ Len(sent[r2]) = 1
        /\ r1 # r2

C8_CalledIsAnswered ==
    \A r \in ChatIds : (pc[r] = "ProviderCalled") ~> (Len(resp[r]) = 1)

\* C9: GET / is answered 200 with the plain text "OK" whatever the credential;
\* it reads no credential, builds no prompt and calls no provider.
C9_HealthCheck ==
    \A h \in HealthIds :
        /\ keyReads[h] = 0
        /\ messages[h] = << >>
        /\ client[h] = << >>
        /\ sent[h] = << >>
        /\ provider[h] = "idle"
        /\ pc[h] = "Received" => resp[h] = << >>
        /\ pc[h] = "Done" =>
            resp[h] = <<[status |-> 200, kind |-> "text", key |-> "", text |-> <<"OK">>]>>

C9_Witness == \E h \in HealthIds : pc[h] = "Done" /\ ~KeyPresent /\ \E r \in ChatIds : Len(sent[r]) = 0 /\ Finished(r)

\* the order of the handler's states
Rank(p) ==
    CASE p = "Received" -> 0
      [] p = "Validated" -> 1
      [] p = "PromptBuilt" -> 2
      [] p = "ProviderCalled" -> 3
      [] OTHER -> 4

OneResponse ==
    \A r \in ChatIds :
        /\ Len(resp[r]) = IF Finished(r) THEN 1 ELSE 0
        /\ \A i \in 1..Len(resp[r]) :
            resp[r][i].kind = "json" /\ resp[r][i].status \in {200, 400, 500}

SameInSameOut ==
    \A r1 \in ChatIds : \A r2 \in ChatIds :
        (body[r1] = body[r2] /\ outcome[r1] = outcome[r2] /\ Finished(r1) /\ Finished(r2))
            => resp[r1] = resp[r2]

Local(r) == <<pc[r], question[r], client[r], messages[r], sent[r], provider[r], outcome[r], keyReads[r], resp[r]>>

Forward ==
    \A r \in ChatIds :
        /\ pc'[r] # pc[r] =>
            /\ Rank(pc'[r]) > Rank(pc[r])
            /\ pc'[r] = "Rejected" => pc[r] = "Validated"
            /\ pc'[r] \in {"Received", "Validated", "PromptBuilt", "ProviderCalled", "Mapped", "Rejected"}
        /\ Local(r)' # Local(r) => \A x \in Requests \ {r} : Local(x)' = Local(x)

====
